---- MODULE Spec2Model ----
(***************************************************************************)
(* Model of src/app.py: the Streamlit front end of the law-firm management *)
(* system and the MySQL tables it reads and writes.                        *)
(*                                                                         *)
(* The tables are the variables usuarios, abogados, clientes, casos,       *)
(* citas, mensajes and documentos.  Every handler of app.py is one action  *)
(* (two where a stored procedure's read and write can interleave with      *)
(* another request).  The stored procedures sp_* are called by app.py but  *)
(* their bodies are not part of src/; they are modelled from spec.md and   *)
(* marked so in MODEL_MAP.json.                                            *)
(***************************************************************************)
EXTENDS Integers, Sequences, FiniteSets, TLC

VARIABLES usuarios, abogados, clientes, casos, citas, mensajes, documentos,
          ses, ultimo

vars == <<usuarios, abogados, clientes, casos, citas, mensajes, documentos,
          ses, ultimo>>

directorio == <<usuarios, abogados, clientes>>

(***************************************************************************)
(* Bounds of the model.                                                    *)
(***************************************************************************)
MaxCitas == 2
MaxFecha == 2
MaxHora == 1
MaxDocs == 3
MaxCasos == 1
MaxMensajes == 1
MaxUsuarios == 2
MaxPerfiles == 2
MaxBandeja == 2
MaxInactivos == 1

\* Python None / SQL NULL for an id column (AUTO_INCREMENT ids start at 1).
NULL == 0

Fechas == 1..MaxFecha
Horas == 1..MaxHora
\* st.text_input("Motivo de la Cita"): empty or not.
Motivos == {"", "consulta"}
\* The browser sessions that run main() concurrently.
Sesiones == {"s1", "s2"}

(***************************************************************************)
(* Lookups shared by the handlers.                                         *)
(***************************************************************************)
IdsUsuario == DOMAIN usuarios

Rol(u) == usuarios[u].rol

\* get_user_profile(user_id, role): the profile ids that the join returns
\* for the user.  result[0] is one of them (no ORDER BY), None when the join
\* is empty.
get_user_profile(u, rol) ==
    LET filas == IF rol = "abogado"
                   THEN {a.id_abogado : a \in {x \in abogados : x.id_usuario = u}}
                   ELSE IF rol = "cliente"
                   THEN {c.id_cliente : c \in {x \in clientes : x.id_usuario = u}}
                   ELSE {}
    IN IF filas = {} THEN {NULL} ELSE filas

\* main(): the dashboard chosen from the role stored in the session.
DashboardMutCliente(rol) ==
    CASE rol = "administrador" -> "admin"
      [] rol = "abogado" -> "lawyer"
      [] rol = "cliente" -> "admin"
      [] OTHER -> "none"

Dashboard(rol) ==
    CASE rol = "administrador" -> "admin"
      [] rol = "abogado" -> "lawyer"
      [] rol = "cliente" -> "client"
      [] OTHER -> "none"

(***************************************************************************)
(* A directory and a set of cases that registration and case assignment    *)
(* produce: one administrator, two lawyers, two clients; client 1 has a    *)
(* case with each lawyer, client 2 only with lawyer 1.                     *)
(***************************************************************************)
UsuariosBase ==
    (1 :> [correo |-> "admin@b", rol |-> "administrador", estado |-> "activo"]) @@
    (2 :> [correo |-> "l1@b", rol |-> "abogado", estado |-> "activo"]) @@
    (3 :> [correo |-> "l2@b", rol |-> "abogado", estado |-> "activo"]) @@
    (4 :> [correo |-> "c1@b", rol |-> "cliente", estado |-> "activo"]) @@
    (5 :> [correo |-> "c2@b", rol |-> "cliente", estado |-> "activo"])

AbogadosBase == {[id_abogado |-> 1, id_usuario |-> 2],
                 [id_abogado |-> 2, id_usuario |-> 3]}

ClientesBase == {[id_cliente |-> 1, id_usuario |-> 4],
                 [id_cliente |-> 2, id_usuario |-> 5]}

CasosBase ==
    {[id_caso |-> 1, id_cliente |-> 1, id_abogado |-> 1, estado |-> "pendiente"],
     [id_caso |-> 2, id_cliente |-> 2, id_abogado |-> 1, estado |-> "pendiente"],
     [id_caso |-> 3, id_cliente |-> 1, id_abogado |-> 2, estado |-> "pendiente"]}

\* What the last run of a handler did: the operation, the user of the session
\* that ran it, its outcome, and the cases, documents and appointments whose
\* fields it wrote to the page.
Hecho(op, u, res, ks, ds, cs) ==
    [op |-> op, actor |-> u, res |-> res, casosVistos |-> ks, docsVistos |-> ds,
     citasVistas |-> cs]

SinOperacion == Hecho("none", NULL, "none", {}, {}, {})

\* A session's run of a two-step handler: pc is the handler's position, req
\* the submitted form, msgs what st.error/st.success showed, res what the
\* procedure did and paso the step of the procedure that decided it.
SesionLibre(u) == [user |-> u, pc |-> "form", req |-> <<>>, msgs |-> <<>>,
                   res |-> "none", paso |-> "none"]

(***************************************************************************)
(* Appointments: show_calendar_management and sp_agendar_cita.             *)
(***************************************************************************)
\* Whether a non-cancelled appointment of the lawyer holds the slot.
SlotOcupado(cs, a, f, h) ==
    \E c \in cs : /\ c.id_abogado = a
                  /\ c.fecha = f
                  /\ c.hora = h
                  /\ c.estado # "cancelled"

\* sp_agendar_cita, its write: the row is inserted in state scheduled unless
\* the slot's key is taken at the moment of the write, and then nothing is
\* written.
sp_agendar_cita_sin_clave(cs, a, cl, k, f, h, m) ==
    cs \cup {[id_cita |-> Cardinality(cs) + 1, id_abogado |-> a,
              id_cliente |-> cl, id_caso |-> k, fecha |-> f, hora |-> h,
              motivo |-> m, estado |-> "scheduled"]}

sp_agendar_cita(cs, a, cl, k, f, h, m) ==
    IF SlotOcupado(cs, a, f, h)
      THEN cs
      ELSE cs \cup {[id_cita |-> Cardinality(cs) + 1, id_abogado |-> a,
                     id_cliente |-> cl, id_caso |-> k, fecha |-> f, hora |-> h,
                     motivo |-> m, estado |-> "scheduled"]}

\* The clients of the lawyer's cases (SELECT DISTINCT ... WHERE c.id_abogado).
clientes_abogado_todos(a) == {c.id_cliente : c \in clientes}

clientes_abogado(a) ==
    {c.id_cliente : c \in {x \in casos : x.id_abogado = a}}

\* The cases of the selected client with this lawyer, plus 'Sin caso
\* especifico' -> None.
caso_options_todos(cl, a) ==
    {c.id_caso : c \in {x \in casos : x.id_abogado = a}} \cup {NULL}

caso_options(cl, a) ==
    {c.id_caso : c \in {x \in casos : x.id_cliente = cl /\ x.id_abogado = a}}
        \cup {NULL}

\* execute_stored_procedure: an exception of the procedure is shown with
\* st.error and swallowed; the caller goes on as after a success.
execute_stored_procedure_silencioso(signal) == <<>>

execute_stored_procedure(signal) ==
    IF signal = "ok" THEN <<>> ELSE <<signal>>

\* Appointments written plus those whose procedure call is under way.
CitasEnCurso == Cardinality(citas) + Cardinality({s \in Sesiones : ses[s].pc = "insert"})

\* The submit of form nueva_cita up to the procedure's read of the slot.
AgendarCita(s) ==
    /\ ses[s].pc = "form"
    /\ Dashboard(Rol(ses[s].user)) = "lawyer"
    /\ CitasEnCurso < MaxCitas
    /\ \E a \in get_user_profile(ses[s].user, "abogado") :
         /\ a # NULL
         /\ \E f \in Fechas, h \in Horas, m \in Motivos :
              IF clientes_abogado(a) = {} \/ m = ""
                THEN \* the if of the submit fails: nothing is called or shown
                     ses' = [ses EXCEPT ![s].pc = "done", ![s].res = "nothing",
                                        ![s].req = <<>>, ![s].msgs = <<>>]
                ELSE \E cl \in clientes_abogado(a) :
                     \E k \in caso_options(cl, a) :
                       LET req == [id_abogado |-> a, id_cliente |-> cl,
                                   id_caso |-> k, fecha |-> f, hora |-> h,
                                   motivo |-> m]
                       IN IF SlotOcupado(citas, a, f, h)
                            THEN ses' = [ses EXCEPT
                                   ![s].pc = "done", ![s].res = "rejected",
                                   ![s].req = req, ![s].paso = "read",
                                   ![s].msgs = execute_stored_procedure("SlotUnavailable")
                                                 \o <<"success">>]
                            ELSE ses' = [ses EXCEPT ![s].pc = "insert",
                                                    ![s].req = req]
    /\ UNCHANGED <<directorio, casos, citas, mensajes, documentos, ultimo>>

\* The procedure's write and the rest of the handler: st.success, st.rerun.
AgendarCitaInsert(s) ==
    /\ ses[s].pc = "insert"
    /\ LET r == ses[s].req
           nuevas == sp_agendar_cita(citas, r.id_abogado, r.id_cliente, r.id_caso,
                                     r.fecha, r.hora, r.motivo)
       IN /\ citas' = nuevas
          /\ ses' = [ses EXCEPT
                 ![s].pc = "done", ![s].paso = "write",
                 ![s].res = IF nuevas = citas THEN "rejected" ELSE "inserted",
                 ![s].msgs = execute_stored_procedure(
                                 IF nuevas = citas THEN "SlotUnavailable" ELSE "ok")
                               \o <<"success">>]
    /\ UNCHANGED <<directorio, casos, mensajes, documentos, ultimo>>

\* st.rerun(): the script runs again and the form is drawn anew.
Rerun(s) ==
    /\ ses[s].pc = "done"
    /\ ses' = [ses EXCEPT ![s] = SesionLibre(ses[s].user)]
    /\ UNCHANGED <<directorio, casos, citas, mensajes, documentos, ultimo>>

InitCitas ==
    /\ usuarios = UsuariosBase
    /\ abogados = AbogadosBase
    /\ clientes = ClientesBase
    /\ casos = CasosBase
    /\ citas = {}
    /\ mensajes = {}
    /\ documentos = {}
    /\ ses \in [Sesiones -> {SesionLibre(u) : u \in {2, 3}}]
    /\ ultimo = SinOperacion

NextCitas ==
    \/ \E s \in Sesiones : AgendarCita(s)
    \/ \E s \in Sesiones : AgendarCitaInsert(s)
    \/ \E s \in Sesiones : Rerun(s)

SpecCitas == InitCitas /\ [][NextCitas]_vars

(***************************************************************************)
(* Documents: show_document_management and sp_subir_documento.             *)
(***************************************************************************)
\* uploaded_file.name
Nombres == {"contract.pdf", "brief.pdf"}

\* The cases offered in 'Seleccionar Caso', by the role stored in the session.
\* The selectbox is keyed by title; whichever case a title stands for, it is
\* one of these.
casos_disponibles(u) ==
    IF Rol(u) = "cliente"
      THEN {c.id_caso : c \in {x \in casos :
                \E p \in get_user_profile(u, "cliente") : x.id_cliente = p}}
      ELSE IF Rol(u) = "abogado"
      THEN {c.id_caso : c \in {x \in casos :
                \E p \in get_user_profile(u, "abogado") : x.id_abogado = p}}
      ELSE {c.id_caso : c \in casos}

\* Whether the upload form is drawn: not cliente_view or user_role != 'cliente'.
OfreceSubidaSiempre(cliente_view, rol) == TRUE

OfreceSubida(cliente_view, rol) == ~cliente_view \/ rol # "cliente"

\* cliente_view as the dashboards pass it: True from show_client_dashboard,
\* the default False from show_lawyer_dashboard.
cliente_view(dash) == dash = "client"

Versiones(ds, k, n) ==
    {d.version : d \in {x \in ds : x.id_caso = k /\ x.nombre_archivo = n}}

\* sp_subir_documento, its read: the greatest version of (case, filename),
\* 0 when there is none.
MaxVersion(ds, k, n) ==
    IF Versiones(ds, k, n) = {} THEN 0
    ELSE CHOOSE v \in Versiones(ds, k, n) : \A w \in Versiones(ds, k, n) : w <= v

\* sp_subir_documento, its write: a new row with the version computed from
\* the read, refused when (case, filename, version) is already stored.
sp_subir_documento_sin_clave(ds, k, n, ruta, tipo, kb, u, v) ==
    ds \cup {[id_doc |-> Cardinality(ds) + 1, id_caso |-> k, nombre_archivo |-> n,
              ruta_archivo |-> ruta, tipo_documento |-> tipo, tamanio_kb |-> kb,
              subido_por |-> u, version |-> v]}

sp_subir_documento_sobrescribe(ds, k, n, ruta, tipo, kb, u, v) ==
    {d \in ds : ~(d.id_caso = k /\ d.nombre_archivo = n)}
        \cup {[id_doc |-> Cardinality(ds) + 1, id_caso |-> k,
                nombre_archivo |-> n, ruta_archivo |-> ruta,
                tipo_documento |-> tipo, tamanio_kb |-> kb,
                subido_por |-> u, version |-> v]}

sp_subir_documento(ds, k, n, ruta, tipo, kb, u, v) ==
    IF v \in Versiones(ds, k, n)
      THEN ds
      ELSE ds \cup {[id_doc |-> Cardinality(ds) + 1, id_caso |-> k,
                     nombre_archivo |-> n, ruta_archivo |-> ruta,
                     tipo_documento |-> tipo, tamanio_kb |-> kb,
                     subido_por |-> u, version |-> v]}

DocsEnCurso ==
    Cardinality(documentos) + Cardinality({s \in Sesiones : ses[s].pc = "doc_write"})

\* The button 'Subir Documento' up to the procedure's read of the versions.
SubirDocumento(s) ==
    /\ ses[s].pc = "form"
    /\ Dashboard(Rol(ses[s].user)) \in {"lawyer", "client"}
    /\ OfreceSubida(cliente_view(Dashboard(Rol(ses[s].user))), Rol(ses[s].user))
    /\ DocsEnCurso < MaxDocs
    /\ \E k \in casos_disponibles(ses[s].user), n \in Nombres :
         ses' = [ses EXCEPT
                   ![s].pc = "doc_write",
                   ![s].req = [id_caso |-> k, nombre_archivo |-> n,
                               ruta_archivo |-> <<"uploads", k, n>>,
                               tipo_documento |-> "Contrato", tamanio_kb |-> 1,
                               subido_por |-> ses[s].user,
                               version |-> MaxVersion(documentos, k, n) + 1]]
    /\ UNCHANGED <<directorio, casos, citas, mensajes, documentos, ultimo>>

\* The procedure's write and the rest of the handler: st.success, st.rerun.
SubirDocumentoInsert(s) ==
    /\ ses[s].pc = "doc_write"
    /\ LET r == ses[s].req
           nuevos == sp_subir_documento(documentos, r.id_caso, r.nombre_archivo,
                                        r.ruta_archivo, r.tipo_documento,
                                        r.tamanio_kb, r.subido_por, r.version)
       IN /\ documentos' = nuevos
          /\ ses' = [ses EXCEPT
                 ![s].pc = "done", ![s].paso = "write",
                 ![s].res = IF nuevos = documentos THEN "rejected" ELSE "inserted",
                 ![s].msgs = execute_stored_procedure(
                                 IF nuevos = documentos THEN "Conflict" ELSE "ok")
                               \o <<"success">>]
    /\ UNCHANGED <<directorio, casos, citas, mensajes, ultimo>>

InitDocs ==
    /\ usuarios = UsuariosBase
    /\ abogados = AbogadosBase
    /\ clientes = ClientesBase
    /\ casos = CasosBase
    /\ citas = {}
    /\ mensajes = {}
    /\ documentos = {}
    /\ ses \in [Sesiones -> {SesionLibre(u) : u \in {2, 3, 4}}]
    /\ ultimo = SinOperacion

NextDocs ==
    \/ \E s \in Sesiones : SubirDocumento(s)
    \/ \E s \in Sesiones : SubirDocumentoInsert(s)
    \/ \E s \in Sesiones : Rerun(s)

SpecDocs == InitDocs /\ [][NextDocs]_vars

(***************************************************************************)
(* Cases: show_case_management, sp_asignar_caso and the lifecycle manager.  *)
(***************************************************************************)
Estados == {"pendiente", "en_revision", "en_proceso", "ganado", "perdido",
            "completado"}

Terminales == {"ganado", "perdido", "completado"}

\* The edges pendiente -> en_revision -> en_proceso -> {ganado, perdido,
\* completado}.
AlcanzableSaltando(de, a) == de \notin Terminales /\ a # de /\ a # "pendiente"

Alcanzable(de, a) ==
    \/ de = "pendiente" /\ a = "en_revision"
    \/ de = "en_revision" /\ a = "en_proceso"
    \/ de = "en_proceso" /\ a \in Terminales

Activo(u) == u \in IdsUsuario /\ usuarios[u].estado = "activo"

\* The profiles offered in the form: those whose user is active.
clientes_activos == {c.id_cliente : c \in {x \in clientes : Activo(x.id_usuario)}}

abogados_activos == {a.id_abogado : a \in {x \in abogados : Activo(x.id_usuario)}}

\* sp_asignar_caso: inserts the case in pendiente when both profiles are
\* active at the insert.
sp_asignar_caso_sin_verificar(cs, cl, ab) ==
    cs \cup {[id_caso |-> Cardinality(cs) + 1, id_cliente |-> cl,
              id_abogado |-> ab, estado |-> "pendiente"]}

sp_asignar_caso(cs, cl, ab) ==
    IF cl \in clientes_activos /\ ab \in abogados_activos
      THEN cs \cup {[id_caso |-> Cardinality(cs) + 1, id_cliente |-> cl,
                     id_abogado |-> ab, estado |-> "pendiente"]}
      ELSE cs

\* canAccess(actor, action, case) of the authorization engine.
canAccess(u, accion, c) ==
    CASE Rol(u) = "administrador" -> TRUE
      [] Rol(u) = "abogado" -> c.id_abogado \in get_user_profile(u, "abogado")
      [] Rol(u) = "cliente" -> /\ accion = "READ"
                               /\ c.id_cliente \in get_user_profile(u, "cliente")
      [] OTHER -> FALSE

\* transition(case, newState, actor) of the lifecycle manager: the signal it
\* returns.
transition(c, nuevo, u) ==
    IF ~canAccess(u, "WRITE", c) THEN "Forbidden"
    ELSE IF c.estado \in Terminales THEN "AlreadyTerminal"
    ELSE IF Alcanzable(c.estado, nuevo) THEN "ok"
    ELSE IF Rol(u) = "administrador" /\ nuevo \in Terminales THEN "ok"
    ELSE "InvalidTransition"

\* The submit of form nuevo_caso, drawn in the administrator's tab 'Casos'.
CrearCaso(u) ==
    /\ Dashboard(Rol(u)) = "admin"
    /\ Cardinality(casos) < MaxCasos
    /\ \E titulo \in {"", "t"} :
         IF titulo = "" \/ clientes_activos = {} \/ abogados_activos = {}
           THEN /\ casos' = casos
                /\ ultimo' = Hecho("crear_caso", u, "campos", {}, {}, {})
           ELSE \E cl \in clientes_activos, ab \in abogados_activos :
                  /\ casos' = sp_asignar_caso(casos, cl, ab)
                  /\ ultimo' = Hecho("crear_caso", u, "success", {}, {}, {})
    /\ UNCHANGED <<directorio, citas, mensajes, documentos, ses>>

\* A call of transition by any user on any case.
Transition(u) ==
    /\ \E c \in casos, nuevo \in Estados :
         LET r == transition(c, nuevo, u)
         IN /\ casos' = IF r = "ok"
                          THEN (casos \ {c}) \cup {[c EXCEPT !.estado = nuevo]}
                          ELSE casos
            /\ ultimo' = Hecho("transition", u, r, {}, {}, {})
    /\ UNCHANGED <<directorio, citas, mensajes, documentos, ses>>

(***************************************************************************)
(* Messages: show_messaging.                                               *)
(***************************************************************************)
\* The recipients offered to a client: the users of the lawyers of the cases
\* whose client profile belongs to the sender.
destinatarios_cliente(u) ==
    {a.id_usuario : a \in {x \in abogados :
        \E c \in casos, cl \in clientes :
            /\ x.id_abogado = c.id_abogado
            /\ c.id_cliente = cl.id_cliente
            /\ cl.id_usuario = u}}

\* The recipients offered to the other roles: every active user but the
\* sender.
destinatarios_otros(u) == {x \in IdsUsuario : Activo(x) /\ x # u}

destinatarios_sin_rol(u, rol) == destinatarios_otros(u)

destinatarios(u, rol) ==
    IF rol = "cliente" THEN destinatarios_cliente(u) ELSE destinatarios_otros(u)

\* 'Caso Relacionado (opcional)': the cases of the sender's lawyer or client
\* profile, and 'Sin caso especifico' -> None.
casos_mensaje(u) ==
    {c.id_caso : c \in {x \in casos :
        \/ \E a \in abogados : a.id_usuario = u /\ a.id_abogado = x.id_abogado
        \/ \E cl \in clientes : cl.id_usuario = u /\ cl.id_cliente = x.id_cliente}}
        \cup {NULL}

\* The clock of the database: DEFAULT CURRENT_TIMESTAMP of a new message is
\* the send time of the latest stored message or a later one.
UltimoEnvio(ms) ==
    IF ms = {} THEN 0
    ELSE CHOOSE t \in {m.fecha_envio : m \in ms} : \A m \in ms : m.fecha_envio <= t

Ahora(ms) == IF ms = {} THEN {1} ELSE {UltimoEnvio(ms), UltimoEnvio(ms) + 1}

\* st.text_input("Asunto")
Asuntos == {"consulta"}

\* if destinatario_seleccionado and mensaje
CamposCompletosSinMensaje(d, texto) == d # NULL

CamposCompletos(d, texto) == d # NULL /\ texto # ""

\* INSERT INTO mensajes (id_remitente, id_destinatario, id_caso, asunto,
\* mensaje): the other columns take their defaults.
insertar_mensaje(ms, u, d, k, asunto, texto, t) ==
    ms \cup {[id_mensaje |-> Cardinality(ms) + 1, id_remitente |-> u,
              id_destinatario |-> d, id_caso |-> k, asunto |-> asunto,
              mensaje |-> texto, fecha_envio |-> t, leido |-> FALSE]}

\* The submit of form enviar_mensaje, as one step: the run's queries and its
\* INSERT with no other request in between.  max bounds the stored messages.
EnviarMensajeHasta(u, max) ==
    /\ Dashboard(Rol(u)) \in {"lawyer", "client"}
    /\ Cardinality(mensajes) < max
    /\ destinatarios(u, Rol(u)) # {}
    /\ \E d \in destinatarios(u, Rol(u)), k \in casos_mensaje(u),
          asunto \in Asuntos, texto \in {"", "hola"}, t \in Ahora(mensajes) :
         IF ~CamposCompletos(d, texto)
           THEN /\ mensajes' = mensajes
                /\ ultimo' = Hecho("enviar_mensaje", u, "campos", {}, {}, {})
           ELSE /\ mensajes' = insertar_mensaje(mensajes, u, d, k, asunto, texto, t)
                /\ ultimo' = Hecho("enviar_mensaje", u, "success", {}, {}, {})
    /\ UNCHANGED <<directorio, casos, citas, documentos, ses>>

EnviarMensaje(u) == EnviarMensajeHasta(u, MaxMensajes)

\* WHERE m.id_destinatario = %s
mensajes_recibidos_todos(u) == mensajes

mensajes_recibidos(u) == {m \in mensajes : m.id_destinatario = u}

\* ORDER BY m.fecha_envio DESC: the rows in an order that never puts an
\* earlier send time before a later one; rows of equal send time come in any
\* order.
OrdenSinOrden(filas) == TRUE

OrdenDesc(filas) ==
    \A i, j \in DOMAIN filas :
        i < j => filas[i].fecha_envio >= filas[j].fecha_envio

\* The results a SELECT over the rows ms may return.
Resultados(ms) ==
    {filas \in [1..Cardinality(ms) -> ms] :
        /\ \A i, j \in DOMAIN filas : i # j => filas[i] # filas[j]
        /\ OrdenDesc(filas)}

\* Tab 'Bandeja de Entrada': the messages to the user in the order of the
\* query, each with the title of its case when it has one.
VerBandeja(u) ==
    /\ Dashboard(Rol(u)) \in {"lawyer", "client"}
    /\ \E filas \in Resultados(mensajes_recibidos(u)) :
         ultimo' = [op |-> "bandeja", actor |-> u, res |-> "ok",
                    casosVistos |-> {filas[i].id_caso :
                                       i \in {j \in DOMAIN filas : filas[j].id_caso # NULL}},
                    docsVistos |-> {}, citasVistas |-> {},
                    filas |-> [i \in DOMAIN filas |-> filas[i].id_mensaje]]
    /\ UNCHANGED <<directorio, casos, citas, mensajes, documentos, ses>>

\* Button 'Marcar como leido', drawn for the unread messages of the inbox:
\* UPDATE mensajes SET leido = TRUE WHERE id_mensaje = %s.
MarcarLeido(u) ==
    /\ Dashboard(Rol(u)) \in {"lawyer", "client"}
    /\ \E m \in mensajes_recibidos(u) :
         /\ ~m.leido
         /\ mensajes' = (mensajes \ {m}) \cup {[m EXCEPT !.leido = TRUE]}
    /\ ultimo' = Hecho("marcar_leido", u, "ok", {}, {}, {})
    /\ UNCHANGED <<directorio, casos, citas, documentos, ses>>

(***************************************************************************)
(* The read-only tabs of the dashboards.                                   *)
(***************************************************************************)
\* sp_casos_por_cliente / sp_casos_por_abogado: the cases of a profile.
sp_casos_por_cliente(cl) == {c.id_caso : c \in {x \in casos : x.id_cliente = cl}}

sp_casos_por_abogado(ab) == {c.id_caso : c \in {x \in casos : x.id_abogado = ab}}

\* Tab 'Mis Casos' of show_client_dashboard and of show_lawyer_dashboard.
VerMisCasos(u) ==
    /\ Dashboard(Rol(u)) \in {"lawyer", "client"}
    /\ \E p \in get_user_profile(u, Rol(u)) :
         ultimo' = Hecho("mis_casos", u, "ok",
                         IF p = NULL THEN {}
                         ELSE IF Dashboard(Rol(u)) = "client"
                           THEN sp_casos_por_cliente(p)
                           ELSE sp_casos_por_abogado(p),
                         {}, {})
    /\ UNCHANGED <<directorio, casos, citas, mensajes, documentos, ses>>

\* show_document_management down to the list of the selected case's documents.
VerDocumentos(u) ==
    /\ Dashboard(Rol(u)) \in {"lawyer", "client"}
    /\ \E k \in casos_disponibles(u) :
         ultimo' = Hecho("documentos", u, "ok", {k},
                         {d.id_doc : d \in {x \in documentos : x.id_caso = k}}, {})
    /\ UNCHANGED <<directorio, casos, citas, mensajes, documentos, ses>>

\* show_calendar_management down to 'Proximas Citas': the lawyer's
\* appointments, each with the title of its case when it has one.
VerAgenda(u) ==
    /\ Dashboard(Rol(u)) = "lawyer"
    /\ \E a \in get_user_profile(u, "abogado") :
         LET proximas == {c \in citas : c.id_abogado = a}
         IN ultimo' = IF a = NULL
                        THEN Hecho("agenda", u, "sin_abogado", {}, {}, {})
                        ELSE Hecho("agenda", u, "ok",
                                   {c.id_caso : c \in {x \in proximas : x.id_caso # NULL}},
                                   {}, {c.id_cita : c \in proximas})
    /\ UNCHANGED <<directorio, casos, citas, mensajes, documentos, ses>>

\* Outside the two-step handlers the sessions stay at their forms.
SesionesBase == [s \in Sesiones |-> SesionLibre(2)]

\* Documents and appointments that uploads and bookings of the two lawyers
\* produce on the base cases.
DocumentosBase ==
    {[id_doc |-> 1, id_caso |-> 1, nombre_archivo |-> "contract.pdf",
      ruta_archivo |-> <<"uploads", 1, "contract.pdf">>,
      tipo_documento |-> "Contrato", tamanio_kb |-> 1, subido_por |-> 2,
      version |-> 1],
     [id_doc |-> 2, id_caso |-> 2, nombre_archivo |-> "contract.pdf",
      ruta_archivo |-> <<"uploads", 2, "contract.pdf">>,
      tipo_documento |-> "Contrato", tamanio_kb |-> 1, subido_por |-> 2,
      version |-> 1],
     [id_doc |-> 3, id_caso |-> 3, nombre_archivo |-> "brief.pdf",
      ruta_archivo |-> <<"uploads", 3, "brief.pdf">>,
      tipo_documento |-> "Contrato", tamanio_kb |-> 1, subido_por |-> 3,
      version |-> 1]}

CitasBase ==
    {[id_cita |-> 1, id_abogado |-> 1, id_cliente |-> 2, id_caso |-> 2,
      fecha |-> 1, hora |-> 1, motivo |-> "consulta", estado |-> "scheduled"],
     [id_cita |-> 2, id_abogado |-> 2, id_cliente |-> 1, id_caso |-> 3,
      fecha |-> 1, hora |-> 1, motivo |-> "consulta", estado |-> "scheduled"]}

(***************************************************************************)
(* SpecCasos: the administrator's case form and the lifecycle manager,     *)
(* from an empty table of cases.                                           *)
(***************************************************************************)
InitCasos ==
    /\ usuarios = UsuariosBase
    /\ abogados = AbogadosBase
    /\ clientes = ClientesBase
    /\ casos = {}
    /\ citas = {}
    /\ mensajes = {}
    /\ documentos = {}
    /\ ses = SesionesBase
    /\ ultimo = SinOperacion

NextCasos ==
    \/ \E u \in IdsUsuario : CrearCaso(u)
    \/ \E u \in IdsUsuario : Transition(u)

SpecCasos == InitCasos /\ [][NextCasos]_vars

(***************************************************************************)
(* SpecCliente: what the users of role cliente can do, with the case form  *)
(* that main() gives to whoever it sends to the administrator's dashboard. *)
(***************************************************************************)
UsuariosCliente == {u \in IdsUsuario : Rol(u) = "cliente"}

InitCliente ==
    /\ usuarios = UsuariosBase
    /\ abogados = AbogadosBase
    /\ clientes = ClientesBase
    /\ casos = {}
    /\ citas = {}
    /\ mensajes = {}
    /\ documentos = DocumentosBase
    /\ ses = SesionesBase
    /\ ultimo = SinOperacion

NextCliente ==
    \/ \E u \in IdsUsuario : CrearCaso(u)
    \/ \E u \in UsuariosCliente : Transition(u)
    \/ \E u \in IdsUsuario : EnviarMensaje(u)
    \/ \E u \in UsuariosCliente : VerBandeja(u)
    \/ \E u \in UsuariosCliente : MarcarLeido(u)
    \/ \E u \in UsuariosCliente : VerMisCasos(u)
    \/ \E u \in UsuariosCliente : VerDocumentos(u)

SpecCliente == InitCliente /\ [][NextCliente]_vars

(***************************************************************************)
(* SpecPortal: the messaging and the read-only tabs of the lawyer and      *)
(* client dashboards over the base cases.                                  *)
(***************************************************************************)
InitPortal ==
    /\ usuarios = UsuariosBase
    /\ abogados = AbogadosBase
    /\ clientes = ClientesBase
    /\ casos = CasosBase
    /\ citas = CitasBase
    /\ mensajes = {}
    /\ documentos = DocumentosBase
    /\ ses = SesionesBase
    /\ ultimo = SinOperacion

NextPortal ==
    \/ \E u \in IdsUsuario : EnviarMensaje(u)
    \/ \E u \in IdsUsuario : VerBandeja(u)
    \/ \E u \in IdsUsuario : MarcarLeido(u)
    \/ \E u \in IdsUsuario : VerMisCasos(u)
    \/ \E u \in IdsUsuario : VerDocumentos(u)
    \/ \E u \in IdsUsuario : VerAgenda(u)

SpecPortal == InitPortal /\ [][NextPortal]_vars

(***************************************************************************)
(* SpecBandeja: the two tabs of show_messaging for one lawyer and one of   *)
(* the lawyer's clients, with several messages in an inbox.                *)
(***************************************************************************)
UsuariosBandeja == {2, 4}

NextBandeja ==
    \/ \E u \in UsuariosBandeja : EnviarMensajeHasta(u, MaxBandeja)
    \/ \E u \in UsuariosBandeja : VerBandeja(u)
    \/ \E u \in UsuariosBandeja : MarcarLeido(u)

SpecBandeja == InitPortal /\ [][NextBandeja]_vars

(***************************************************************************)
(* SpecMensajes: the send form of show_messaging run by run, with the      *)
(* administrator's change of a user's status between the runs and between  *)
(* the statements of one run.                                              *)
(***************************************************************************)
\* The status of a user set to inactive (status is mutated by the
\* administrator; users are never deleted).
Desactivar(u) ==
    /\ usuarios[u].estado = "activo"
    /\ Cardinality({x \in IdsUsuario : usuarios[x].estado # "activo"}) < MaxInactivos
    /\ usuarios' = [usuarios EXCEPT ![u].estado = "inactivo"]
    /\ UNCHANGED <<abogados, clientes, casos, citas, mensajes, documentos, ses,
                   ultimo>>

MensajesEnCurso ==
    Cardinality(mensajes) + Cardinality({s \in Sesiones : ses[s].pc = "msg_insert"})

\* A run that draws form enviar_mensaje: the recipients are listed and the
\* user picks one of them in the select box.
ListarDestinatarios(s) ==
    /\ ses[s].pc = "form"
    /\ Dashboard(Rol(ses[s].user)) \in {"lawyer", "client"}
    /\ MensajesEnCurso < MaxMensajes
    /\ LET opciones == destinatarios(ses[s].user, Rol(ses[s].user))
       IN IF opciones = {}
            THEN \* st.info("No hay destinatarios disponibles")
                 ses' = [ses EXCEPT ![s].pc = "done", ![s].res = "nothing"]
            ELSE \E d \in opciones :
                   ses' = [ses EXCEPT ![s].pc = "msg_form",
                                      ![s].req = [opciones |-> opciones,
                                                  elegido |-> d]]
    /\ UNCHANGED <<directorio, casos, citas, mensajes, documentos, ultimo>>

\* The run of the submit up to the INSERT: the recipients are listed again
\* and the select box gives the picked one when the list is the same, and
\* otherwise one of the new list (the widget keeps a position, not a user).
EnviarMensajeSubmit(s) ==
    /\ ses[s].pc = "msg_form"
    /\ LET u == ses[s].user
           opciones == destinatarios(u, Rol(u))
       IN IF opciones = {}
            THEN ses' = [ses EXCEPT ![s].pc = "done", ![s].res = "nothing"]
            ELSE \E d \in opciones, k \in casos_mensaje(u), asunto \in Asuntos,
                    texto \in {"", "hola"} :
                   /\ opciones = ses[s].req.opciones => d = ses[s].req.elegido
                   /\ IF ~CamposCompletos(d, texto)
                        THEN ses' = [ses EXCEPT ![s].pc = "done",
                                                ![s].res = "campos",
                                                ![s].msgs = <<"campos">>]
                        ELSE ses' = [ses EXCEPT
                               ![s].pc = "msg_insert",
                               ![s].req = [opciones |-> opciones,
                                           elegido |-> ses[s].req.elegido,
                                           id_destinatario |-> d, id_caso |-> k,
                                           asunto |-> asunto, mensaje |-> texto]]
    /\ UNCHANGED <<directorio, casos, citas, mensajes, documentos, ultimo>>

\* The INSERT of the submit and the rest of the run: st.success, st.rerun.
EnviarMensajeInsert(s) ==
    /\ ses[s].pc = "msg_insert"
    /\ \E t \in Ahora(mensajes) :
         mensajes' = insertar_mensaje(mensajes, ses[s].user,
                                      ses[s].req.id_destinatario,
                                      ses[s].req.id_caso, ses[s].req.asunto,
                                      ses[s].req.mensaje, t)
    /\ ses' = [ses EXCEPT ![s].pc = "done", ![s].res = "inserted",
                          ![s].paso = "write", ![s].msgs = <<"success">>]
    /\ UNCHANGED <<directorio, casos, citas, documentos, ultimo>>

InitMensajes ==
    /\ usuarios = UsuariosBase
    /\ abogados = AbogadosBase
    /\ clientes = ClientesBase
    /\ casos = CasosBase
    /\ citas = {}
    /\ mensajes = {}
    /\ documentos = {}
    /\ ses \in [Sesiones -> {SesionLibre(u) : u \in {2, 4}}]
    /\ ultimo = SinOperacion

NextMensajes ==
    \/ \E s \in Sesiones : ListarDestinatarios(s)
    \/ \E s \in Sesiones : EnviarMensajeSubmit(s)
    \/ \E s \in Sesiones : EnviarMensajeInsert(s)
    \/ \E s \in Sesiones : Rerun(s)
    \/ \E u \in IdsUsuario : Desactivar(u)

SpecMensajes == InitMensajes /\ [][NextMensajes]_vars

(***************************************************************************)
(* SpecAsignar: form nuevo_caso of show_case_management run by run, in two *)
(* administrator sessions, with changes of a user's status in between.     *)
(***************************************************************************)
CasosEnCurso ==
    Cardinality(casos) + Cardinality({s \in Sesiones : ses[s].pc = "caso_call"})

\* What a select box gives in the run of the submit: the picked option when
\* the options are those of the run that drew the form, and otherwise any of
\* the new options, None when there is none.
Seleccion(antes, elegido, ahora) ==
    IF ahora = {} THEN {NULL}
    ELSE IF ahora = antes THEN {elegido}
    ELSE ahora

\* A run that draws form nuevo_caso: the active clients and lawyers are
\* listed and the administrator picks one of each.
ListarCaso(s) ==
    /\ ses[s].pc = "form"
    /\ Dashboard(Rol(ses[s].user)) = "admin"
    /\ CasosEnCurso < MaxCasos
    /\ \E cl \in Seleccion({}, NULL, clientes_activos),
          ab \in Seleccion({}, NULL, abogados_activos) :
         ses' = [ses EXCEPT ![s].pc = "caso_form",
                            ![s].req = [clientes |-> clientes_activos,
                                        abogados |-> abogados_activos,
                                        id_cliente |-> cl, id_abogado |-> ab]]
    /\ UNCHANGED <<directorio, casos, citas, mensajes, documentos, ultimo>>

\* The run of the submit up to the call of sp_asignar_caso.
CrearCasoSubmit(s) ==
    /\ ses[s].pc = "caso_form"
    /\ \E titulo \in {"", "t"},
          cl \in Seleccion(ses[s].req.clientes, ses[s].req.id_cliente,
                           clientes_activos),
          ab \in Seleccion(ses[s].req.abogados, ses[s].req.id_abogado,
                           abogados_activos) :
         IF titulo = "" \/ cl = NULL \/ ab = NULL
           THEN ses' = [ses EXCEPT ![s].pc = "done", ![s].res = "campos",
                                   ![s].msgs = <<"campos">>]
           ELSE ses' = [ses EXCEPT ![s].pc = "caso_call",
                                   ![s].req = [clientes |-> clientes_activos,
                                               abogados |-> abogados_activos,
                                               id_cliente |-> cl,
                                               id_abogado |-> ab]]
    /\ UNCHANGED <<directorio, casos, citas, mensajes, documentos, ultimo>>

\* The call of sp_asignar_caso and the rest of the run: st.success, st.rerun.
CrearCasoInsert(s) ==
    /\ ses[s].pc = "caso_call"
    /\ LET nuevos == sp_asignar_caso(casos, ses[s].req.id_cliente,
                                     ses[s].req.id_abogado)
       IN /\ casos' = nuevos
          /\ ses' = [ses EXCEPT
                 ![s].pc = "done", ![s].paso = "write",
                 ![s].res = IF nuevos = casos THEN "rejected" ELSE "inserted",
                 ![s].msgs = execute_stored_procedure(
                                 IF nuevos = casos THEN "InvalidArgument" ELSE "ok")
                               \o <<"success">>]
    /\ UNCHANGED <<directorio, citas, mensajes, documentos, ultimo>>

InitAsignar ==
    /\ usuarios = UsuariosBase
    /\ abogados = AbogadosBase
    /\ clientes = ClientesBase
    /\ casos = {}
    /\ citas = {}
    /\ mensajes = {}
    /\ documentos = {}
    /\ ses = [s \in Sesiones |-> SesionLibre(1)]
    /\ ultimo = SinOperacion

NextAsignar ==
    \/ \E s \in Sesiones : ListarCaso(s)
    \/ \E s \in Sesiones : CrearCasoSubmit(s)
    \/ \E s \in Sesiones : CrearCasoInsert(s)
    \/ \E s \in Sesiones : Rerun(s)
    \/ \E u \in IdsUsuario : Desactivar(u)

SpecAsignar == InitAsignar /\ [][NextAsignar]_vars

(***************************************************************************)
(* SpecAgenda: form nueva_cita of show_calendar_management run by run.     *)
(* Inside the form a change of the client does not run the script again,   *)
(* so the cases offered are those of the client of the last run.           *)
(***************************************************************************)
\* A run that draws form nueva_cita with a client selected: the cases of that
\* client with the lawyer are listed and one is picked.
ListarCita(s) ==
    /\ ses[s].pc = "form"
    /\ Dashboard(Rol(ses[s].user)) = "lawyer"
    /\ CitasEnCurso < MaxCitas
    /\ \E a \in get_user_profile(ses[s].user, "abogado") :
         /\ a # NULL
         /\ clientes_abogado(a) # {}
         /\ \E cl \in clientes_abogado(a) :
            \E k \in caso_options(cl, a) :
              ses' = [ses EXCEPT ![s].pc = "cita_form",
                                 ![s].req = [cliente_visto |-> cl,
                                             casos_vistos |-> caso_options(cl, a),
                                             caso_visto |-> k]]
    /\ UNCHANGED <<directorio, casos, citas, mensajes, documentos, ultimo>>

\* The run of the submit, with the client selected at the submit, up to the
\* procedure's read of the slot.
AgendarCitaSubmit(s) ==
    /\ ses[s].pc = "cita_form"
    /\ \E a \in get_user_profile(ses[s].user, "abogado") :
         /\ a # NULL
         /\ \E f \in Fechas, h \in Horas, m \in Motivos :
              IF clientes_abogado(a) = {} \/ m = ""
                THEN ses' = [ses EXCEPT ![s].pc = "done", ![s].res = "nothing",
                                        ![s].req = <<>>, ![s].msgs = <<>>]
                ELSE \E cl \in clientes_abogado(a) :
                     \E k \in Seleccion(ses[s].req.casos_vistos,
                                        ses[s].req.caso_visto,
                                        caso_options(cl, a)) :
                       LET req == [id_abogado |-> a, id_cliente |-> cl,
                                   id_caso |-> k, fecha |-> f, hora |-> h,
                                   motivo |-> m,
                                   cliente_visto |-> ses[s].req.cliente_visto]
                       IN IF SlotOcupado(citas, a, f, h)
                            THEN ses' = [ses EXCEPT
                                   ![s].pc = "done", ![s].res = "rejected",
                                   ![s].req = req, ![s].paso = "read",
                                   ![s].msgs = execute_stored_procedure("SlotUnavailable")
                                                 \o <<"success">>]
                            ELSE ses' = [ses EXCEPT ![s].pc = "insert",
                                                    ![s].req = req]
    /\ UNCHANGED <<directorio, casos, citas, mensajes, documentos, ultimo>>

\* One session of each lawyer: lawyer 1 has two clients to change between.
InitAgenda ==
    /\ usuarios = UsuariosBase
    /\ abogados = AbogadosBase
    /\ clientes = ClientesBase
    /\ casos = CasosBase
    /\ citas = {}
    /\ mensajes = {}
    /\ documentos = {}
    /\ ses = [s \in Sesiones |-> SesionLibre(IF s = "s1" THEN 2 ELSE 3)]
    /\ ultimo = SinOperacion

NextAgenda ==
    \/ \E s \in Sesiones : ListarCita(s)
    \/ \E s \in Sesiones : AgendarCitaSubmit(s)
    \/ \E s \in Sesiones : AgendarCitaInsert(s)
    \/ \E s \in Sesiones : Rerun(s)

SpecAgenda == InitAgenda /\ [][NextAgenda]_vars

(***************************************************************************)
(* SpecLogin: main(), show_login_page, login_user and logout_user, with    *)
(* st.session_state of each browser session.                               *)
(***************************************************************************)
\* What is typed in the password box; "" is the empty box.
Claves == {"", "secreto", "otra"}

\* bcrypt.gensalt(): the salts of the model.
Sales == {"s1", "s2"}

\* hash_password / verify_password: a bcrypt hash carries its salt, and
\* checkpw hashes the password with that salt and compares.
bcrypt_hashpw(password, sal) == <<"2b", sal, password>>

verify_password_siempre(password, hashed) == TRUE

verify_password(password, hashed) == bcrypt_hashpw(password, hashed[2]) = hashed

\* The password each user of the base directory registered with.
ClaveDe(u) == IF u = 3 THEN "otra" ELSE "secreto"

\* The base directory with the column hash_password.
UsuariosLogin ==
    [u \in DOMAIN UsuariosBase |->
        [correo |-> UsuariosBase[u].correo, rol |-> UsuariosBase[u].rol,
         estado |-> UsuariosBase[u].estado,
         hash_password |-> bcrypt_hashpw(ClaveDe(u), IF u = 2 THEN "s2" ELSE "s1")]]

CorreosLogin == {"", "admin@b", "l1@b", "l2@b", "c1@b", "nadie@b"}

\* sp_autenticar_usuario(email): the rows of the users with that email.
sp_autenticar_usuario(correo) ==
    {[id |-> u, correo |-> usuarios[u].correo, rol |-> usuarios[u].rol,
      hash_password |-> usuarios[u].hash_password] :
        u \in {x \in IdsUsuario : usuarios[x].correo = correo}}

\* login_user(email, password): users[0] when there is a row and the
\* password verifies against its hash, and None otherwise.
login_user(correo, password) ==
    {r \in sp_autenticar_usuario(correo) : verify_password(password, r.hash_password)}

\* st.session_state.user = None
SinUsuario == [id |-> NULL, correo |-> "", rol |-> "", hash_password |-> <<>>]

\* main(): the keys it initializes when they are missing.
EstadoInicial ==
    [authenticated |-> FALSE, user |-> SinUsuario, show_register |-> FALSE]

\* main(): the page the run draws from the session state.
Pagina(st) ==
    IF ~st.authenticated
      THEN IF st.show_register THEN "register" ELSE "login"
      ELSE Dashboard(st.user.rol)

\* A session of SpecLogin: its session state, the page of its last run, the
\* handler that led to it and what was typed into the login form.
SesionLogin(st, op, correo, password) ==
    [st |-> st, pagina |-> Pagina(st), op |-> op, correo |-> correo,
     password |-> password]

\* Button 'Iniciar Sesion' of show_login_page.
Login(s) ==
    /\ ses[s].pagina = "login"
    /\ \E correo \in CorreosLogin, password \in Claves :
         IF correo = "" \/ password = ""
           THEN ses' = [ses EXCEPT ![s] =
                          SesionLogin(ses[s].st, "login_campos", correo, password)]
           ELSE IF login_user(correo, password) = {}
             THEN ses' = [ses EXCEPT ![s] =
                            SesionLogin(ses[s].st, "login_error", correo, password)]
             ELSE \E user \in login_user(correo, password) :
                    ses' = [ses EXCEPT ![s] =
                              SesionLogin([ses[s].st EXCEPT !.user = user,
                                                            !.authenticated = TRUE],
                                          "login_ok", correo, password)]
    /\ UNCHANGED <<directorio, casos, citas, mensajes, documentos, ultimo>>

\* Button 'Cerrar Sesion' of the sidebar: logout_user deletes every key and
\* st.rerun runs main, which initializes them again.
Logout(s) ==
    /\ ses[s].st.authenticated
    /\ ses[s].st.user # SinUsuario
    /\ ses' = [ses EXCEPT ![s] = SesionLogin(EstadoInicial, "logout", "", "")]
    /\ UNCHANGED <<directorio, casos, citas, mensajes, documentos, ultimo>>

\* Button 'Registrar Usuario' of show_login_page.
IrARegistro(s) ==
    /\ ses[s].pagina = "login"
    /\ ses' = [ses EXCEPT ![s] =
                  SesionLogin([ses[s].st EXCEPT !.show_register = TRUE],
                              "ir_a_registro", "", "")]
    /\ UNCHANGED <<directorio, casos, citas, mensajes, documentos, ultimo>>

\* Button 'Cancelar' of register_form, drawn on the register page and in the
\* administrator's tab 'Usuarios'.
CancelarRegistro(s) ==
    /\ ses[s].pagina \in {"register", "admin"}
    /\ ses' = [ses EXCEPT ![s] =
                  SesionLogin([ses[s].st EXCEPT !.show_register = FALSE],
                              "cancelar", "", "")]
    /\ UNCHANGED <<directorio, casos, citas, mensajes, documentos, ultimo>>

InitLogin ==
    /\ usuarios = UsuariosLogin
    /\ abogados = AbogadosBase
    /\ clientes = ClientesBase
    /\ casos = CasosBase
    /\ citas = {}
    /\ mensajes = {}
    /\ documentos = {}
    /\ ses = [s \in Sesiones |-> SesionLogin(EstadoInicial, "none", "", "")]
    /\ ultimo = SinOperacion

NextLogin ==
    \/ \E s \in Sesiones : Login(s)
    \/ \E s \in Sesiones : Logout(s)
    \/ \E s \in Sesiones : IrARegistro(s)
    \/ \E s \in Sesiones : CancelarRegistro(s)

SpecLogin == InitLogin /\ [][NextLogin]_vars

(***************************************************************************)
(* SpecReserva: the agenda of a lawyer with clients and of a lawyer with   *)
(* no case assigned yet.                                                   *)
(***************************************************************************)
\* The cases of lawyer 1 only: lawyer 2 has no client.
CasosReserva == {c \in CasosBase : c.id_abogado = 1}

InitReserva ==
    /\ usuarios = UsuariosBase
    /\ abogados = AbogadosBase
    /\ clientes = ClientesBase
    /\ casos = CasosReserva
    /\ citas = {}
    /\ mensajes = {}
    /\ documentos = {}
    /\ ses = [s \in Sesiones |-> SesionLibre(IF s = "s1" THEN 2 ELSE 3)]
    /\ ultimo = SinOperacion

NextReserva ==
    \/ \E s \in Sesiones : AgendarCita(s)
    \/ \E s \in Sesiones : AgendarCitaInsert(s)
    \/ \E s \in Sesiones : Rerun(s)

SpecReserva == InitReserva /\ [][NextReserva]_vars

(***************************************************************************)
(* Registration: show_register_page, register_user, sp_registrar_usuario.  *)
(***************************************************************************)
Roles == {"cliente", "abogado", "administrador"}

Correos == {"ana@b", "luis@b", "eva@b"}

ConCorreo(us, correo) == {i \in DOMAIN us : us[i].correo = correo}

\* sp_registrar_usuario: inserts the user, active, unless the email is in use
\* (emails are unique), and then raises.
sp_registrar_usuario(us, correo, rol) ==
    IF ConCorreo(us, correo) # {}
      THEN us
      ELSE Append(us, [correo |-> correo, rol |-> rol, estado |-> "activo"])

\* Whether register_user goes on to insert a profile: the SELECT by email
\* found a user, and the role has a profile table (extra_data is {} for an
\* administrator and has its keys for the other roles).
InsertaPerfil(us, correo, rol) ==
    /\ ConCorreo(sp_registrar_usuario(us, correo, rol), correo) # {}
    /\ rol \in {"abogado", "cliente"}

\* register_user(nombre, correo, rol, password, extra_data), called from the
\* submit of register_form.  falla: the INSERT of the profile raises, which
\* execute_query shows and swallows.  The call returns True either way.
Registrar ==
    /\ \E correo \in Correos, rol \in Roles, campos \in BOOLEAN, falla \in BOOLEAN :
         IF ~campos
           THEN /\ UNCHANGED <<usuarios, abogados, clientes>>
                /\ ultimo' = Hecho("registrar", NULL, "campos", {}, {}, {})
           ELSE LET us == sp_registrar_usuario(usuarios, correo, rol)
                    dup == us = usuarios
                    inserta == InsertaPerfil(usuarios, correo, rol) /\ ~falla
                IN /\ Len(us) <= MaxUsuarios
                   /\ Cardinality(abogados) + Cardinality(clientes) < MaxPerfiles
                   /\ usuarios' = us
                   /\ \E id \in ConCorreo(us, correo) :
                        /\ abogados' =
                             IF inserta /\ rol = "abogado"
                               THEN abogados \cup
                                      {[id_abogado |-> Cardinality(abogados) + 1,
                                        id_usuario |-> id]}
                               ELSE abogados
                        /\ clientes' =
                             IF inserta /\ rol = "cliente"
                               THEN clientes \cup
                                      {[id_cliente |-> Cardinality(clientes) + 1,
                                        id_usuario |-> id]}
                               ELSE clientes
                   /\ ultimo' = Hecho("registrar", NULL,
                                      IF dup \/ (falla /\ rol # "administrador")
                                        THEN "error_success" ELSE "success",
                                      {}, {}, {})
    /\ UNCHANGED <<casos, citas, mensajes, documentos, ses>>

InitReg ==
    /\ usuarios = <<>>
    /\ abogados = {}
    /\ clientes = {}
    /\ casos = {}
    /\ citas = {}
    /\ mensajes = {}
    /\ documentos = {}
    /\ ses = SesionesBase
    /\ ultimo = SinOperacion

NextReg == Registrar

SpecReg == InitReg /\ [][NextReg]_vars

(***************************************************************************)
(* Claims about appointments, checked under SpecCitas.                     *)
(***************************************************************************)
MismoSlot(x, y) ==
    /\ x.id_abogado = y.id_abogado
    /\ x.fecha = y.fecha
    /\ x.hora = y.hora

Terminada(s) == ses[s].pc = "done" /\ ses[s].res \in {"inserted", "rejected"}

\* C1: for every lawyer and every (date, time) slot, at most one appointment
\* of that lawyer at that slot is in a non-cancelled state, in every state
\* that booking operations reach.
C1_AtMostOnePerSlot ==
    \A c1, c2 \in citas :
        (MismoSlot(c1, c2) /\ c1.estado # "cancelled" /\ c2.estado # "cancelled")
            => c1 = c2

\* A slot is held by an appointment and a later booking of it was refused.
C1_Witness ==
    \E s \in Sesiones :
        /\ ses[s].res = "rejected"
        /\ \E c \in citas : MismoSlot(c, ses[s].req) /\ c.estado = "scheduled"

\* C2: when two booking attempts for the same (lawyer, date, time) slot are
\* issued concurrently, exactly one inserts an appointment, in state
\* scheduled, and the other receives SlotUnavailable.
C2_ConcurrentBookings ==
    \A s, t \in Sesiones :
        (s # t /\ Terminada(s) /\ Terminada(t) /\ MismoSlot(ses[s].req, ses[t].req))
            => /\ ~(ses[s].res = "inserted" /\ ses[t].res = "inserted")
               /\ Cardinality({c \in citas : MismoSlot(c, ses[s].req)}) = 1
               /\ \A c \in citas : MismoSlot(c, ses[s].req) => c.estado = "scheduled"
               /\ ses[s].res = "rejected" =>
                      \E i \in DOMAIN ses[s].msgs : ses[s].msgs[i] = "SlotUnavailable"

\* Both attempts passed the procedure's read of the free slot; one wrote the
\* row and the other was refused at its write.
C2_Witness ==
    \E s, t \in Sesiones :
        /\ s # t
        /\ ses[s].res = "inserted" /\ ses[s].pc = "done"
        /\ ses[t].res = "rejected" /\ ses[t].paso = "write"
        /\ MismoSlot(ses[s].req, ses[t].req)

\* C8: a booking rejected because the slot is taken gives the caller
\* SlotUnavailable, leaves the set of appointments unchanged and is never
\* reported to the caller as a success.
C8_RejectedBookingNotSuccess ==
    [][\A s \in Sesiones :
          (ses'[s].res = "rejected" /\ ses[s].pc # "done")
              => /\ citas' = citas
                 /\ \E i \in DOMAIN ses'[s].msgs : ses'[s].msgs[i] = "SlotUnavailable"
                 /\ \A i \in DOMAIN ses'[s].msgs : ses'[s].msgs[i] # "success"]_vars

(***************************************************************************)
(* Claims about documents, checked under SpecDocs.                         *)
(***************************************************************************)
FilasDe(k, n) == {d \in documentos : d.id_caso = k /\ d.nombre_archivo = n}

\* C3: for every (case, filename) pair the versions of the stored rows are
\* exactly 1..n, no gap and no repeat, also when the read of the maximum and
\* the insert of concurrent uploads interleave; a new row's version is the
\* previous maximum plus 1 (1 for the first upload of a filename).
C3_VersionsGapFree ==
    /\ [](\A k \in {c.id_caso : c \in casos}, n \in Nombres :
            Versiones(documentos, k, n) = 1..Cardinality(FilasDe(k, n)))
    /\ [][\A d \in documentos' \ documentos :
            d.version = MaxVersion(documentos, d.id_caso, d.nombre_archivo) + 1]_vars

\* Two uploads of one filename read the same maximum; one wrote version 1,
\* the other was refused, and a later upload wrote version 2.
C3_Witness ==
    \E s \in Sesiones, k \in {c.id_caso : c \in casos}, n \in Nombres :
        /\ ses[s].res = "rejected"
        /\ ses[s].paso = "write"
        /\ ses[s].req.id_caso = k
        /\ ses[s].req.nombre_archivo = n
        /\ Versiones(documentos, k, n) = {1, 2}

(***************************************************************************)
(* Claims about cases, checked under SpecCasos and SpecCliente.            *)
(***************************************************************************)
C4_Edge(de, a) ==
    \/ de = "pendiente" /\ a = "en_revision"
    \/ de = "en_revision" /\ a = "en_proceso"
    \/ de = "en_proceso" /\ a \in {"ganado", "perdido", "completado"}

\* C4: the states a case visits form a path pendiente -> en_revision ->
\* en_proceso -> {ganado, perdido, completado}: a new case is in pendiente,
\* a successful transition follows an edge (or is the administrator's forced
\* closure of a non-terminal case), and none starts from a terminal state.
C4_CaseLifecyclePath ==
    [][/\ \A c \in casos' :
            (\A o \in casos : o.id_caso # c.id_caso) => c.estado = "pendiente"
       /\ \A o \in casos : \E c \in casos' : c.id_caso = o.id_caso
       /\ \A o \in casos, c \in casos' :
            (o.id_caso = c.id_caso /\ o.estado # c.estado)
                => /\ o.estado \notin {"ganado", "perdido", "completado"}
                   /\ \/ C4_Edge(o.estado, c.estado)
                      \/ /\ usuarios[ultimo'.actor].rol = "administrador"
                         /\ c.estado \in {"ganado", "perdido", "completado"}]_vars

\* A lawyer, who cannot force a closure, has taken a case along the whole
\* path to ganado.
C4_Witness ==
    /\ ultimo.op = "transition"
    /\ ultimo.res = "ok"
    /\ usuarios[ultimo.actor].rol = "abogado"
    /\ \E c \in casos : c.estado = "ganado"

\* C7: no operation of a user of role cliente creates a case, changes a
\* case's client, lawyer or state, or deletes a case; a client's attempt to
\* transition a case is rejected with Forbidden.
C7_ClientNeverWritesCases ==
    [][(ultimo'.actor \in DOMAIN usuarios /\ usuarios[ultimo'.actor].rol = "cliente")
          => /\ casos' = casos
             /\ ultimo'.op = "transition" => ultimo'.res = "Forbidden"]_vars

\* A client with a case of their own has called transition and was refused.
C7_Witness ==
    /\ ultimo.op = "transition"
    /\ ultimo.res = "Forbidden"
    /\ usuarios[ultimo.actor].rol = "cliente"
    /\ \E c \in casos, cl \in clientes :
          cl.id_usuario = ultimo.actor /\ c.id_cliente = cl.id_cliente

(***************************************************************************)
(* Claims about what the dashboards show and send, checked under           *)
(* SpecPortal.                                                             *)
(***************************************************************************)
CasoDe(k) == CHOOSE c \in casos : c.id_caso = k

DocDe(i) == CHOOSE d \in documentos : d.id_doc = i

CitaDe(i) == CHOOSE c \in citas : c.id_cita = i

EsDelCliente(u, k) ==
    \E cl \in clientes : cl.id_usuario = u /\ CasoDe(k).id_cliente = cl.id_cliente

EsDelAbogado(u, k) ==
    \E a \in abogados : a.id_usuario = u /\ CasoDe(k).id_abogado = a.id_abogado

\* C5: a user of role cliente reads a case, and its documents, iff the case's
\* client reference is the user's client profile; nothing the client portal
\* shows belongs to a case of another client.
C5_ClientReadsOwnCasesOnly ==
    (ultimo.actor \in DOMAIN usuarios /\ usuarios[ultimo.actor].rol = "cliente")
        => /\ \A k \in ultimo.casosVistos : EsDelCliente(ultimo.actor, k)
           /\ \A i \in ultimo.docsVistos : EsDelCliente(ultimo.actor, DocDe(i).id_caso)
           /\ ultimo.op = "mis_casos" =>
                ultimo.casosVistos =
                    {c.id_caso : c \in {x \in casos : EsDelCliente(ultimo.actor, x.id_caso)}}

\* C6: what a user of role abogado reads (cases, documents, appointments) is
\* exactly what carries the user's lawyer profile; the lawyer never reads a
\* case, or a case's documents, assigned to another lawyer.
C6_LawyerReadsOwnCasesOnly ==
    (ultimo.actor \in DOMAIN usuarios /\ usuarios[ultimo.actor].rol = "abogado")
        => /\ \A k \in ultimo.casosVistos : EsDelAbogado(ultimo.actor, k)
           /\ \A i \in ultimo.docsVistos : EsDelAbogado(ultimo.actor, DocDe(i).id_caso)
           /\ \A i \in ultimo.citasVistas :
                \E a \in abogados : /\ a.id_usuario = ultimo.actor
                                    /\ CitaDe(i).id_abogado = a.id_abogado
           /\ ultimo.op = "mis_casos" =>
                ultimo.casosVistos =
                    {c.id_caso : c \in {x \in casos : EsDelAbogado(ultimo.actor, x.id_caso)}}

\* Whether d is the user of a lawyer assigned to a case whose client is u.
C10_Eligible(u, d) ==
    \E c \in casos, cl \in clientes, a \in abogados :
        /\ cl.id_usuario = u
        /\ c.id_cliente = cl.id_cliente
        /\ c.id_abogado = a.id_abogado
        /\ a.id_usuario = d

\* C10: every recipient of a message sent by a user of role cliente is a
\* lawyer assigned to at least one case of that client; no message of a
\* client to any other user is ever written.
C10_ClientRecipientsAreOwnLawyers ==
    \A m \in mensajes :
        usuarios[m.id_remitente].rol = "cliente"
            => C10_Eligible(m.id_remitente, m.id_destinatario)

\* Client 2, whose only case is with lawyer 1, has written to that lawyer,
\* while the user of lawyer 2 is active and not connected to the client.
C10_Witness ==
    \E m \in mensajes :
        /\ usuarios[m.id_remitente].rol = "cliente"
        /\ C10_Eligible(m.id_remitente, m.id_destinatario)
        /\ \E d \in DOMAIN usuarios :
              /\ usuarios[d].rol = "abogado"
              /\ usuarios[d].estado = "activo"
              /\ ~C10_Eligible(m.id_remitente, d)

(***************************************************************************)
(* Claim about registration, checked under SpecReg.                        *)
(***************************************************************************)
\* C9: every lawyer or client profile belongs to one user whose role matches
\* the profile's kind, every user of role abogado or cliente has exactly one
\* such profile, and a registration creates the user and its profile or
\* neither.
C9_ProfilesOneToOne ==
    /\ [](/\ \A a \in abogados : /\ a.id_usuario \in DOMAIN usuarios
                                 /\ usuarios[a.id_usuario].rol = "abogado"
          /\ \A c \in clientes : /\ c.id_usuario \in DOMAIN usuarios
                                 /\ usuarios[c.id_usuario].rol = "cliente"
          /\ \A u \in DOMAIN usuarios :
                /\ usuarios[u].rol = "abogado" =>
                      Cardinality({a \in abogados : a.id_usuario = u}) = 1
                /\ usuarios[u].rol = "cliente" =>
                      Cardinality({c \in clientes : c.id_usuario = u}) = 1)
    /\ [][/\ (abogados' # abogados \/ clientes' # clientes) => usuarios' # usuarios
          /\ (usuarios' # usuarios /\ usuarios'[Len(usuarios')].rol # "administrador")
                => (abogados' # abogados \/ clientes' # clientes)]_vars

(***************************************************************************)
(* Claims about messages, checked under SpecMensajes and SpecPortal.       *)
(***************************************************************************)
\* C11: for a sender of role abogado or administrador a message is written
\* only if, at the write, the recipient is an active user other than the
\* sender; a send to a user who is inactive at the submit (also one
\* deactivated after the recipients were listed) is rejected with
\* InvalidRecipient and writes nothing.
C11_RecipientActiveAtWrite ==
    [][/\ \A m \in mensajes' \ mensajes :
            usuarios[m.id_remitente].rol \in {"abogado", "administrador"}
                => /\ m.id_destinatario # m.id_remitente
                   /\ usuarios[m.id_destinatario].estado = "activo"
       /\ \A s \in Sesiones :
            (/\ ses[s].pc \in {"msg_form", "msg_insert"}
             /\ ses'[s].pc = "done"
             /\ usuarios[ses[s].user].rol \in {"abogado", "administrador"}
             /\ usuarios[ses[s].req.elegido].estado # "activo")
                => /\ mensajes' = mensajes
                   /\ ses'[s].msgs = <<"InvalidRecipient">>]_vars

\* Whether the case links the user: the user is the case's client, the
\* case's lawyer, or an administrator (linked to every case by role).
C12_Vinculado(c, u) ==
    \/ \E cl \in clientes : cl.id_usuario = u /\ cl.id_cliente = c.id_cliente
    \/ \E a \in abogados : a.id_usuario = u /\ a.id_abogado = c.id_abogado
    \/ usuarios[u].rol = "administrador"

\* C12: every stored message with a case reference refers to a case that
\* links both its sender and its recipient; a send whose case does not link
\* them writes nothing.
C12_CaseLinksSenderAndRecipient ==
    \A m \in mensajes :
        m.id_caso # NULL
            => \E c \in casos : /\ c.id_caso = m.id_caso
                                /\ C12_Vinculado(c, m.id_remitente)
                                /\ C12_Vinculado(c, m.id_destinatario)

\* C13: a send with an empty body is rejected and leaves the set of messages
\* unchanged; no stored message ever has an empty body.
C13_EmptyBodyRejected ==
    /\ [](\A m \in mensajes : m.mensaje # "")
    /\ [][/\ (ultimo'.op = "enviar_mensaje" /\ ultimo'.res = "campos")
                => mensajes' = mensajes
          /\ \A m \in mensajes' :
                (\A o \in mensajes : o.id_mensaje # m.id_mensaje)
                    => m.mensaje # "" /\ ultimo'.res = "success"]_vars

\* A send with an empty body was refused while a message was stored.
C13_Witness ==
    /\ ultimo.op = "enviar_mensaje"
    /\ ultimo.res = "campos"
    /\ mensajes # {}

\* C14: the read flag of a message is set only by the message's recipient,
\* and no operation changes any other field of a stored message or removes
\* it.
C14_OnlyReadFlagChanges ==
    [][\A m \in mensajes :
          \E n \in mensajes' :
              /\ n.id_mensaje = m.id_mensaje
              /\ [n EXCEPT !.leido = m.leido] = m
              /\ n.leido # m.leido
                    => /\ ultimo'.op = "marcar_leido"
                       /\ ultimo'.actor = m.id_destinatario]_vars

\* A recipient has marked a message as read while another user's message
\* stays unread.
C14_Witness ==
    /\ ultimo.op = "marcar_leido"
    /\ \E m, n \in mensajes :
          /\ m.leido /\ m.id_destinatario = ultimo.actor
          /\ ~n.leido /\ n.id_destinatario # ultimo.actor

C15_MensajeDe(i) == CHOOSE m \in mensajes : m.id_mensaje = i

\* C15: the inbox of a user lists exactly the messages whose recipient is the
\* user, each once, and of any two listed messages the one sent later comes
\* first.
C15_InboxExactAndOrdered ==
    ultimo.op = "bandeja"
        => /\ {ultimo.filas[i] : i \in DOMAIN ultimo.filas} =
                 {m.id_mensaje : m \in {x \in mensajes :
                                           x.id_destinatario = ultimo.actor}}
           /\ \A i, j \in DOMAIN ultimo.filas :
                 i # j => ultimo.filas[i] # ultimo.filas[j]
           /\ \A i, j \in DOMAIN ultimo.filas :
                 C15_MensajeDe(ultimo.filas[i]).fecha_envio >
                     C15_MensajeDe(ultimo.filas[j]).fecha_envio => i < j

\* An inbox with two messages sent at different times was listed, the later
\* one first.
C15_Witness ==
    /\ ultimo.op = "bandeja"
    /\ Len(ultimo.filas) = 2
    /\ C15_MensajeDe(ultimo.filas[1]).fecha_envio >
           C15_MensajeDe(ultimo.filas[2]).fecha_envio
    /\ ultimo.filas[1] > ultimo.filas[2]

(***************************************************************************)
(* Claim about case assignment, checked under SpecAsignar.                 *)
(***************************************************************************)
\* C16: a case is inserted only if the user of its client and the user of
\* its lawyer are active at the insert, also when one was deactivated after
\* the form listed it; every new case is in pendiente and references one
\* existing client profile and one existing lawyer profile.
C16_AssignmentChecksActive ==
    [][\A c \in casos' :
          (\A o \in casos : o.id_caso # c.id_caso)
              => /\ c.estado = "pendiente"
                 /\ \E cl \in clientes :
                       /\ cl.id_cliente = c.id_cliente
                       /\ usuarios[cl.id_usuario].estado = "activo"
                 /\ \E a \in abogados :
                       /\ a.id_abogado = c.id_abogado
                       /\ usuarios[a.id_usuario].estado = "activo"]_vars

\* The form listed a client as active, the client's user was deactivated
\* before the procedure ran, and the procedure inserted nothing.
C16_Witness ==
    \E s \in Sesiones :
        /\ ses[s].res = "rejected"
        /\ ses[s].paso = "write"
        /\ ses[s].req.id_cliente \in ses[s].req.clientes
        /\ ses[s].req.id_cliente \notin clientes_activos
        /\ casos = {}

(***************************************************************************)
(* Claim about the case of an appointment, checked under SpecAgenda.       *)
(***************************************************************************)
\* C17: every stored appointment with a case reference refers to a case
\* whose lawyer is the appointment's lawyer and whose client is the
\* appointment's client, whatever client and case were selected in the
\* form and also when the client was changed after the form was drawn.
C17_AppointmentCaseMatches ==
    \A c \in citas :
        c.id_caso # NULL
            => \E k \in casos : /\ k.id_caso = c.id_caso
                                /\ k.id_abogado = c.id_abogado
                                /\ k.id_cliente = c.id_cliente

\* The form was drawn for one client with that client's case picked, the
\* booking was submitted for another client, and it was stored with a case.
C17_Witness ==
    \E s \in Sesiones :
        /\ ses[s].res = "inserted"
        /\ ses[s].req.cliente_visto # ses[s].req.id_cliente
        /\ ses[s].req.id_caso # NULL
        /\ \E c \in citas : /\ c.id_cliente = ses[s].req.id_cliente
                             /\ c.id_caso = ses[s].req.id_caso

(***************************************************************************)
(* Further claims about documents, checked under SpecDocs.                 *)
(***************************************************************************)
\* C18: an upload only adds one row: every document row stored before it,
\* of any case and filename, is stored after it with the same filename,
\* path, type, size, uploader and version.
C18_UploadOnlyAdds ==
    [][/\ documentos \subseteq documentos'
       /\ Cardinality(documentos' \ documentos) <= 1
       /\ \A s \in Sesiones :
            (ses[s].pc = "doc_write" /\ ses'[s].res = "inserted")
                => Cardinality(documentos' \ documentos) = 1]_vars

\* A second version of a filename was uploaded; the first version and a
\* document of another case are still stored.
C18_Witness ==
    \E s \in Sesiones :
        /\ ses[s].res = "inserted"
        /\ ses[s].pc = "done"
        /\ ses[s].req.version = 2
        /\ \E d \in documentos : /\ d.id_caso = ses[s].req.id_caso
                                  /\ d.nombre_archivo = ses[s].req.nombre_archivo
                                  /\ d.version = 1
        /\ \E d \in documentos : d.id_caso # ses[s].req.id_caso

(***************************************************************************)
(* Claim about main, login and logout, checked under SpecLogin.            *)
(***************************************************************************)
\* C19: a role dashboard is drawn only for a session authenticated with a
\* user, and it is the dashboard of that user's stored role; a session
\* becomes authenticated only by a login whose password verifies against
\* the stored hash of the user with the typed email, a failed login leaves
\* it unauthenticated, and after a logout every session key is as main
\* initializes it and the login page is drawn.
C19_DashboardOnlyAfterLogin ==
    /\ [](\A s \in Sesiones :
            /\ ses[s].pagina \in {"admin", "lawyer", "client"}
                  => /\ ses[s].st.authenticated
                     /\ ses[s].st.user.id # NULL
                     /\ ses[s].st.user.id \in DOMAIN usuarios
                     /\ ses[s].pagina =
                          (CASE usuarios[ses[s].st.user.id].rol = "administrador" -> "admin"
                             [] usuarios[ses[s].st.user.id].rol = "abogado" -> "lawyer"
                             [] usuarios[ses[s].st.user.id].rol = "cliente" -> "client")
            /\ ~ses[s].st.authenticated => ses[s].pagina \in {"login", "register"})
    /\ [][\A s \in Sesiones :
            /\ (~ses[s].st.authenticated /\ ses'[s].st.authenticated)
                  => /\ ses'[s].op = "login_ok"
                     /\ usuarios[ses'[s].st.user.id].correo = ses'[s].correo
                     /\ usuarios[ses'[s].st.user.id].hash_password =
                          <<"2b", usuarios[ses'[s].st.user.id].hash_password[2],
                            ses'[s].password>>
            /\ (ses'[s] # ses[s] /\ ses'[s].op \in {"login_error", "login_campos"})
                  => ~ses'[s].st.authenticated
            /\ (ses'[s] # ses[s] /\ ses'[s].op = "logout")
                  => /\ ~ses'[s].st.authenticated
                     /\ ses'[s].st.user.id = NULL
                     /\ ~ses'[s].st.show_register
                     /\ ses'[s].pagina = "login"]_vars

\* One session is in the lawyer dashboard after a login with the lawyer's
\* password, while the other typed a wrong password for the administrator
\* and is still at the login page.
C19_Witness ==
    \E s, t \in Sesiones :
        /\ ses[s].op = "login_ok"
        /\ ses[s].pagina = "lawyer"
        /\ ses[t].op = "login_error"
        /\ ses[t].correo = "admin@b"
        /\ ses[t].pagina = "login"

C21_BookingsOfOwnClients ==
    /\ [](\A c \in citas : c.motivo # "")
    /\ [][/\ \A c \in citas' \ citas :
               /\ \E s \in Sesiones, a \in abogados :
                     /\ ses[s].pc = "insert" /\ ses'[s].pc = "done"
                     /\ a.id_usuario = ses[s].user
                     /\ a.id_abogado = c.id_abogado
               /\ \E k \in casos : /\ k.id_abogado = c.id_abogado
                                    /\ k.id_cliente = c.id_cliente
          /\ \A s \in Sesiones :
               (ses[s].pc = "form" /\ ses'[s].pc = "done" /\ ses'[s].res = "nothing")
                   => citas' = citas
          /\ \A s \in Sesiones :
               (ses'[s] # ses[s] /\ \A a \in abogados, k \in casos :
                     a.id_usuario = ses[s].user => k.id_abogado # a.id_abogado)
                   => citas' = citas /\ ses'[s].pc # "insert"]_vars

\* The lawyer without cases submitted the form and nothing was written,
\* while the other lawyer has booked one of their clients.
C21_Witness ==
    \E s \in Sesiones :
        /\ ses[s].res = "nothing"
        /\ \A a \in abogados, k \in casos :
              a.id_usuario = ses[s].user => k.id_abogado # a.id_abogado
        /\ \E c \in citas, k \in casos : /\ k.id_abogado = c.id_abogado
                                           /\ k.id_cliente = c.id_cliente

====
